---- MODULE Spec2Model ----
(***************************************************************************)
(* Model of the robot-rock control loop: the input pipeline                *)
(* (normalizeInput -> lean -> move -> stand), the tick-driven Settler      *)
(* (settleServos), the startup ramp (setStartupSettlerFilter) and the      *)
(* orchestrator (main, exit, the SIGINT handler).                          *)
(*                                                                         *)
(* JavaScript runs one callback at a time, so every callback, and every    *)
(* stretch of an async function between two awaits, is one atomic action.  *)
(***************************************************************************)
EXTENDS Integers, Sequences, FiniteSets, TLC

(* ------------------------------ bounds -------------------------------- *)

\* Number of servos on the rig (indices 0 .. NumServos-1).
NumServos == 4

\* Number of SIGINTs delivered over one run.
MaxSignals == 2

\* Number of most recent lean calls remembered by the observer leanLog.
HistoryLen == 4

(* ----------------------- program constants ---------------------------- *)

\* buttonsPressed.has(4)
LeanButton == 4

\* The other button the pad can report in the model (not read by lean).
OtherButton == 5

(* --------------------- collaborators (not in src) --------------------- *)

\* Normalised axis values, sampled at -1, 0, 1.
Axis == {-1, 0, 1}

\* Position.neutral of every servo.
Neutral == 2

\* Half-width of a servo's range around neutral.
Span == 2

\* Position.current of every servo as init() leaves it, before any settling.
StartCurrent == 1

Servos == 0 .. NumServos - 1

\* servos.all(): every servo, in stable (index) order.
ServosAll == [i \in 1 .. NumServos |-> i - 1]

RECURSIVE SelectIdx(_, _)
SelectIdx(s, parity) ==
  IF s = <<>> THEN <<>>
  ELSE IF Head(s) % 2 = parity
       THEN <<Head(s)>> \o SelectIdx(Tail(s), parity)
       ELSE SelectIdx(Tail(s), parity)

\* servos.even() / servos.odd(): the partition of all() by index parity.
ServosEven == SelectIdx(ServosAll, 0)
ServosOdd == SelectIdx(ServosAll, 1)

\* Legs are {elbow, shoulder} pairs: leg k has shoulder 2k and elbow 2k+1; a
\* servo left over when NumServos is odd belongs to no leg.
NumLegs == NumServos \div 2
Leg(k) == [shoulder |-> 2 * k, elbow |-> 2 * k + 1]
LegsLeft == {Leg(k) : k \in {j \in 0 .. NumLegs - 1 : 2 * j < NumLegs}}
LegsRight == {Leg(k) : k \in {j \in 0 .. NumLegs - 1 : 2 * j >= NumLegs}}
\* legs.all(): every leg servo.
LegsAll == {l.shoulder : l \in LegsLeft \cup LegsRight}
             \cup {l.elbow : l \in LegsLeft \cup LegsRight}

\* Per-servo calibration: direction of travel.
Dir(servo) == IF servo % 4 \in {0, 3} THEN 1 ELSE -1

\* scaleAxisToServo(axisValue, servo): goal position for a normalised axis.
scaleAxisToServo(v, servo) == Neutral + Dir(servo) * v * Span

\* vectorFromJoystick(joystick): the joystick sample as an {x, y} vector.
vectorFromJoystick(joystick) == [x |-> joystick.x, y |-> joystick.y]

\* pid.step(error): a pure proportional controller of gain 1/2, rounding
\* away from zero so that a non-zero error always produces a move.
pidStep(error) ==
  IF error >= 0 THEN (error + 1) \div 2 ELSE -((1 - error) \div 2)

(* ------------------------------ helpers ------------------------------- *)

Range(s) == {s[i] : i \in 1 .. Len(s)}

\* An absent result (null/undefined) is the empty sequence, a present one a
\* one-element sequence.
Null == <<>>
Some(x) == <<x>>

\* s without its k-th element.
RemoveAt(s, k) == [i \in 1 .. Len(s) - 1 |-> IF i < k THEN s[i] ELSE s[i + 1]]

\* The last n elements of s.
LastN(s, n) ==
  IF Len(s) <= n THEN s ELSE SubSeq(s, Len(s) - n + 1, Len(s))

(* ------------------------------- state -------------------------------- *)

VARIABLES
  mainPc,        \* position of main(): "sleep", "startingServer", "running"
  exit,          \* the exit handler installed: "initial" or "full"
  exited,        \* "no", or how the process ended
  state,         \* fields of the state object main's `state` refers to
  state0,        \* fields of the object init() made (the ramp's `state`)
  sameObject,    \* TRUE while main's `state` is the object init() made
  goal,          \* Position.goal of each servo
  current,       \* Position.current of each servo
  justLeaned,    \* lean's module-level edge flag
  rampPc,        \* position of setStartupSettlerFilter
  servosActive,  \* the ramp's servosActive set
  evenServos,    \* the ramp's evenServos set, in iteration order
  oddServos,     \* the ramp's oddServos set, in iteration order
  tickInterval,  \* TRUE while the interval timer is armed
  server,        \* "none", "open", "closed"
  exitPc,        \* how many invocations of the full exit handler are at each await
  pwmOut,        \* last value written to each PWM channel (-1: none yet)
  calls,         \* how often clearInterval, server.close, pwm.stop were called
  stopDone,      \* TRUE once a pwm.stop() has completed
  tickLog,       \* observer: what the Settler pass of the last callback did
  stepLog,       \* observer: what the input step of the last callback did
  leanLog,       \* observer: the most recent lean calls
  activations    \* observer: the indices the ramp activated, in order

vars == <<mainPc, exit, exited, state, state0, sameObject, goal, current,
          justLeaned, rampPc, servosActive, evenServos, oddServos,
          tickInterval, server, exitPc, pwmOut, calls, stopDone,
          tickLog, stepLog, leanLog, activations>>

(* ------------------------- the input pipeline ------------------------- *)

\* Raw samples the input source delivers.  rejectedBy names the stage, if
\* any, that finds the sample invalid and returns an absent result.
RawInputs(leftAxis, rightAxis, buttons) ==
  [axes : [left : [x : leftAxis, y : {0}],
           right : [x : rightAxis, y : rightAxis]],
   buttonsPressed : buttons,
   rejectedBy : {"none", "move", "stand"}]

vectorizeJoystick(joystick) ==
  [x |-> vectorFromJoystick(joystick).x, y |-> vectorFromJoystick(joystick).y]

\* normalizeInput: vectorised axes, buttonsPressed as a set.
normalizeInput(context) ==
  Some([context EXCEPT
          !.input = [axes |-> [left |-> vectorizeJoystick(context.input.axes.left),
                               right |-> vectorizeJoystick(context.input.axes.right)],
                     buttonsPressed |-> Range(context.input.buttonsPressed),
                     rejectedBy |-> context.input.rejectedBy]])

\* LeanGoals with the right legs' shoulders given the same sign as the left
\* legs' (the mirroring of line 77 left out).
LeanGoalsUnmirrored(g, x, y) ==
  [i \in Servos |->
     IF \E l \in LegsLeft \cup LegsRight : l.elbow = i
       THEN scaleAxisToServo(-x, i)
     ELSE IF \E l \in LegsLeft \cup LegsRight : l.shoulder = i
       THEN scaleAxisToServo(y, i)
     ELSE g[i]]

\* The goals lean writes while the button is held.
LeanGoals(g, x, y) ==
  [i \in Servos |->
     IF \E l \in LegsLeft \cup LegsRight : l.elbow = i
       THEN scaleAxisToServo(-x, i)
     ELSE IF \E l \in LegsLeft : l.shoulder = i
       THEN scaleAxisToServo(y, i)
     ELSE IF \E l \in LegsRight : l.shoulder = i
       THEN scaleAxisToServo(-y, i)
     ELSE g[i]]

\* The goals lean writes on the release edge.
NeutralGoals(g) == [i \in Servos |-> IF i \in LegsAll THEN Neutral ELSE g[i]]

\* lean resetting on every call without the button (the edge flag is not
\* consulted).
leanLevelTriggered(context, heap) ==
  LET x == context.input.axes.right.x
      y == context.input.axes.right.y
      shouldLean == LeanButton \in context.input.buttonsPressed
      ret == Some([context EXCEPT !.state = [context.state EXCEPT
                                               !.leaned = shouldLean]])
  IN  IF shouldLean
        THEN [ret |-> ret, goal |-> LeanGoals(heap.goal, x, y),
              justLeaned |-> TRUE, reset |-> FALSE]
      ELSE [ret |-> ret, goal |-> NeutralGoals(heap.goal),
            justLeaned |-> FALSE, reset |-> TRUE]

\* lean returning a state built afresh, {leaned}, instead of a copy of the
\* one it was given: the copy's settleServoFilter is lost.
leanFreshState(context, heap) ==
  LET x == context.input.axes.right.x
      y == context.input.axes.right.y
      shouldLean == LeanButton \in context.input.buttonsPressed
      ret == Some([context EXCEPT !.state = [settleServoFilter |-> FALSE,
                                             leaned |-> shouldLean]])
  IN  IF shouldLean
        THEN [ret |-> ret, goal |-> LeanGoals(heap.goal, x, y),
              justLeaned |-> TRUE, reset |-> FALSE]
      ELSE IF heap.justLeaned
        THEN [ret |-> ret, goal |-> NeutralGoals(heap.goal),
              justLeaned |-> FALSE, reset |-> TRUE]
      ELSE [ret |-> ret, goal |-> heap.goal,
            justLeaned |-> heap.justLeaned, reset |-> FALSE]

\* lean(context): heap holds what lean mutates in place (the servos' goals
\* and the module-level justLeaned).  reset tells whether the neutral reset
\* ran.
lean(context, heap) ==
  LET x == context.input.axes.right.x
      y == context.input.axes.right.y
      shouldLean == LeanButton \in context.input.buttonsPressed
      ret == Some([context EXCEPT !.state = [context.state EXCEPT
                                               !.leaned = shouldLean]])
  IN  IF shouldLean
        THEN [ret |-> ret, goal |-> LeanGoals(heap.goal, x, y),
              justLeaned |-> TRUE, reset |-> FALSE]
      ELSE IF heap.justLeaned
        THEN [ret |-> ret, goal |-> NeutralGoals(heap.goal),
              justLeaned |-> FALSE, reset |-> TRUE]
      ELSE [ret |-> ret, goal |-> heap.goal,
            justLeaned |-> heap.justLeaned, reset |-> FALSE]

\* move(context): sets the shoulder goals from the left stick when it is
\* deflected; absent result on a sample it rejects.
move(context, heap) ==
  LET lx == context.input.axes.left.x
  IN  IF context.input.rejectedBy = "move"
        THEN [ret |-> Null, goal |-> heap.goal]
      ELSE [ret |-> Some(context),
            goal |-> IF lx = 0 THEN heap.goal
                     ELSE [i \in Servos |->
                             IF \E l \in LegsLeft \cup LegsRight : l.shoulder = i
                               THEN scaleAxisToServo(lx, i)
                               ELSE heap.goal[i]]]

\* stand(context): absent result on a sample it rejects.
stand(context, heap) ==
  IF context.input.rejectedBy = "stand"
    THEN [ret |-> Null, goal |-> heap.goal]
    ELSE [ret |-> Some(context), goal |-> heap.goal]

\* assert(x): throws on an absent value.
assertOk(x) == x # Null

\* step(context): threw tells whether an assert threw (then there is no
\* return value); state is context.state of the last stage; stages lists the
\* stages that ran; heap fields are the in-place effects.
step(context, heap) ==
  LET n == normalizeInput(context)
      l == lean(n[1], heap)
      lheap == [goal |-> l.goal, justLeaned |-> l.justLeaned]
      m == move(l.ret[1], lheap)
      s == stand(m.ret[1], [goal |-> m.goal, justLeaned |-> l.justLeaned])
      leanCall == [pressed |-> LeanButton \in n[1].input.buttonsPressed,
                   reset |-> l.reset,
                   x |-> n[1].input.axes.right.x,
                   y |-> n[1].input.axes.right.y,
                   before |-> heap.goal, after |-> l.goal]
  IN  IF ~assertOk(n)
        THEN [threw |-> TRUE, state |-> context.state, goal |-> heap.goal,
              justLeaned |-> heap.justLeaned, stages |-> <<"normalize">>,
              leanCalls |-> <<>>]
      ELSE IF ~assertOk(l.ret)
        THEN [threw |-> TRUE, state |-> context.state, goal |-> l.goal,
              justLeaned |-> l.justLeaned, stages |-> <<"normalize", "lean">>,
              leanCalls |-> <<leanCall>>]
      ELSE IF ~assertOk(m.ret)
        THEN [threw |-> TRUE, state |-> context.state, goal |-> m.goal,
              justLeaned |-> l.justLeaned,
              stages |-> <<"normalize", "lean", "move">>,
              leanCalls |-> <<leanCall>>]
      ELSE IF ~assertOk(s.ret)
        THEN [threw |-> TRUE, state |-> context.state, goal |-> s.goal,
              justLeaned |-> l.justLeaned,
              stages |-> <<"normalize", "lean", "move", "stand">>,
              leanCalls |-> <<leanCall>>]
      ELSE [threw |-> FALSE, state |-> s.ret[1].state, goal |-> s.goal,
            justLeaned |-> l.justLeaned,
            stages |-> <<"normalize", "lean", "move", "stand">>,
            leanCalls |-> <<leanCall>>]

(* ----------------------------- the Settler ---------------------------- *)

\* No hardware write fails in this pass (a value that is no servo index).
NoFail == NumServos

\* A filter that lets every servo through.
settleServoFilterAll(active, index) == TRUE

\* settleServoFilter(servo) as installed by the ramp.
settleServoFilter(active, index) == index \in active

\* settleLoop with the error taken the wrong way round (current - goal).
RECURSIVE settleLoopErrorReversed(_, _, _, _, _, _)
settleLoopErrorReversed(k, filterOn, active, g, failAt, acc) ==
  IF k > Len(ServosAll) \/ acc.threw THEN acc
  ELSE LET index == ServosAll[k]
       IN  IF filterOn /\ ~settleServoFilter(active, index)
             THEN settleLoopErrorReversed(k + 1, filterOn, active, g, failAt,
                                          acc)
           ELSE
             LET error == acc.current[index] - g[index]
                 cur == acc.current[index] + pidStep(error)
                 stepped == [acc EXCEPT
                               !.current[index] = cur,
                               !.pidCalls = Append(@, [index |-> index,
                                                       error |-> error])]
             IN  IF failAt = index
                   THEN [stepped EXCEPT !.threw = TRUE]
                 ELSE settleLoopErrorReversed(k + 1, filterOn, active, g,
                        failAt,
                        [stepped EXCEPT
                           !.pwmOut[index] = cur,
                           !.writes = Append(@, [index |-> index,
                                                 value |-> cur])])

\* settleLoop with lines 14 and 15 exchanged: the hardware is given
\* Position.current as it was before the PID step is added to it.
RECURSIVE settleLoopWritesFirst(_, _, _, _, _, _)
settleLoopWritesFirst(k, filterOn, active, g, failAt, acc) ==
  IF k > Len(ServosAll) \/ acc.threw THEN acc
  ELSE LET index == ServosAll[k]
       IN  IF filterOn /\ ~settleServoFilter(active, index)
             THEN settleLoopWritesFirst(k + 1, filterOn, active, g, failAt, acc)
           ELSE
             LET error == g[index] - acc.current[index]
                 cur == acc.current[index] + pidStep(error)
             IN  IF failAt = index
                   THEN [acc EXCEPT !.threw = TRUE]
                 ELSE settleLoopWritesFirst(k + 1, filterOn, active, g, failAt,
                        [acc EXCEPT
                           !.pwmOut[index] = acc.current[index],
                           !.writes = Append(@, [index |-> index,
                                                 value |-> acc.current[index]]),
                           !.current[index] = cur,
                           !.pidCalls = Append(@, [index |-> index,
                                                   error |-> error])])

\* The loop of settleServos from position k of servos.all().  acc carries
\* Position.current, the PWM channels, and the calls made so far; threw is
\* set when pwm.setPwm throws, which ends the loop.
RECURSIVE settleLoop(_, _, _, _, _, _)
settleLoop(k, filterOn, active, g, failAt, acc) ==
  IF k > Len(ServosAll) \/ acc.threw THEN acc
  ELSE LET index == ServosAll[k]
       IN  IF filterOn /\ ~settleServoFilter(active, index)
             THEN settleLoop(k + 1, filterOn, active, g, failAt, acc)
           ELSE
             LET error == g[index] - acc.current[index]
                 cur == acc.current[index] + pidStep(error)
                 stepped == [acc EXCEPT
                               !.current[index] = cur,
                               !.pidCalls = Append(@, [index |-> index,
                                                       error |-> error])]
             IN  IF failAt = index
                   THEN [stepped EXCEPT !.threw = TRUE]
                 ELSE settleLoop(k + 1, filterOn, active, g, failAt,
                        [stepped EXCEPT
                           !.pwmOut[index] = cur,
                           !.writes = Append(@, [index |-> index,
                                                 value |-> cur])])

\* settleServos(context): one Settler pass.  failAt is the servo whose
\* pwm.setPwm call throws (NoFail: none).
settleServos(st, active, g, cur, pwm, failAt) ==
  settleLoop(1, st.settleServoFilter, active, g, failAt,
             [current |-> cur, pwmOut |-> pwm, pidCalls |-> <<>>,
              writes |-> <<>>, threw |-> FALSE])


\* tick(context): the state tick returns is context.state, the object it was
\* given; threw tells that settleServos threw instead of returning.
tick(st, active, g, cur, pwm, failAt) ==
  LET r == settleServos(st, active, g, cur, pwm, failAt)
  IN  [state |-> st, current |-> r.current, pwmOut |-> r.pwmOut,
       pidCalls |-> r.pidCalls, writes |-> r.writes, threw |-> r.threw]

(* --------------------------- the startup ramp ------------------------- *)

\* The member of servosRemaining the loop at lines 229-235 ends on: the
\* iterator's first value, advanced once for every i with 1 <= i < index.
PickServo(servosRemaining, index) ==
  servosRemaining[IF index <= 1 THEN 1 ELSE index]

\* The values Math.floor(Math.random() * size) can take.
RandomIndexes(size) == 0 .. (IF size > 0 THEN size - 1 ELSE 0)

\* RampWhile with the two sets taken in the other order ([odd, even]): the
\* first loop empties the odd set, the second the even set.
RampWhileOddFirst(which, r, index) ==
  LET rem == IF which = "even" THEN r.oddServos ELSE r.evenServos
  IN  IF Len(rem) = 0
        THEN [r EXCEPT !.pc = IF which = "even" THEN "evenPause" ELSE "oddPause"]
      ELSE LET servoIndex == PickServo(rem, index)
               k == CHOOSE j \in 1 .. Len(rem) : rem[j] = servoIndex
               left == RemoveAt(rem, k)
           IN  [pc |-> IF which = "even" THEN "evenWait" ELSE "oddWait",
                servosActive |-> r.servosActive \cup {servoIndex},
                evenServos |-> IF which = "odd" THEN left ELSE r.evenServos,
                oddServos |-> IF which = "even" THEN left ELSE r.oddServos,
                activations |-> Append(r.activations, servoIndex)]

\* RampWhile without the delete of line 238: the member picked stays in
\* servosRemaining.
RampWhileKeepsMember(which, r, index) ==
  LET rem == IF which = "even" THEN r.evenServos ELSE r.oddServos
  IN  IF Len(rem) = 0
        THEN [r EXCEPT !.pc = IF which = "even" THEN "evenPause" ELSE "oddPause"]
      ELSE LET servoIndex == PickServo(rem, index)
           IN  [pc |-> IF which = "even" THEN "evenWait" ELSE "oddWait",
                servosActive |-> r.servosActive \cup {servoIndex},
                evenServos |-> r.evenServos,
                oddServos |-> r.oddServos,
                activations |-> Append(r.activations, servoIndex)]

\* setStartupSettlerFilter from the test of `while (servosRemaining.size)`
\* for the set `which` to its next await.  r holds the ramp's locals.
RampWhile(which, r, index) ==
  LET rem == IF which = "even" THEN r.evenServos ELSE r.oddServos
  IN  IF Len(rem) = 0
        THEN [r EXCEPT !.pc = IF which = "even" THEN "evenPause" ELSE "oddPause"]
      ELSE LET servoIndex == PickServo(rem, index)
               k == CHOOSE j \in 1 .. Len(rem) : rem[j] = servoIndex
               left == RemoveAt(rem, k)
           IN  [pc |-> IF which = "even" THEN "evenWait" ELSE "oddWait",
                servosActive |-> r.servosActive \cup {servoIndex},
                evenServos |-> IF which = "even" THEN left ELSE r.evenServos,
                oddServos |-> IF which = "odd" THEN left ELSE r.oddServos,
                activations |-> Append(r.activations, servoIndex)]

RampLocals ==
  [pc |-> rampPc, servosActive |-> servosActive, evenServos |-> evenServos,
   oddServos |-> oddServos, activations |-> activations]

SetRamp(r) ==
  /\ rampPc' = r.pc
  /\ servosActive' = r.servosActive
  /\ evenServos' = r.evenServos
  /\ oddServos' = r.oddServos
  /\ activations' = r.activations

RampSize ==
  IF rampPc = "evenWait" THEN Len(evenServos)
  ELSE IF rampPc = "oddWait" THEN Len(oddServos)
  ELSE IF rampPc = "evenPause" THEN Len(oddServos)
  ELSE 0

\* The set the ramp's next activation step picks from, between two of its
\* steps: the even set inside the even loop, the odd set from the pause after
\* the even loop on.
NextRemaining ==
  IF rampPc = "evenWait" THEN evenServos
  ELSE IF rampPc \in {"evenPause", "oddWait"} THEN oddServos
  ELSE <<>>

(* ------------------------------- actions ------------------------------ *)

NoLog == <<>>

\* The awaits of the full exit handler, and its two ends.
ExitStages == {"wait1", "closing", "wait2", "stopping", "rejected", "done"}

RECURSIVE SumOver(_, _)
SumOver(f, S) ==
  IF S = {} THEN 0
  ELSE LET x == CHOOSE y \in S : TRUE IN f[x] + SumOver(f, S \ {x})

\* Invocations of the full exit handler so far.
ExitCalls == SumOver(exitPc, ExitStages)

Alive == exited = "no"

Init ==
  /\ mainPc = "sleep"
  /\ exit = "initial"
  /\ exited = "no"
  /\ state = [settleServoFilter |-> FALSE, leaned |-> FALSE]
  /\ state0 = [settleServoFilter |-> FALSE, leaned |-> FALSE]
  /\ sameObject = TRUE
  /\ goal = [i \in Servos |-> Neutral]
  /\ current = [i \in Servos |-> StartCurrent]
  /\ justLeaned = FALSE
  /\ rampPc = "notStarted"
  /\ servosActive = {}
  /\ evenServos = <<>>
  /\ oddServos = <<>>
  /\ tickInterval = FALSE
  /\ server = "none"
  /\ exitPc = [p \in ExitStages |-> 0]
  /\ pwmOut = [i \in Servos |-> -1]
  /\ calls = [clearInterval |-> 0, close |-> 0, stop |-> 0]
  /\ stopDone = FALSE
  /\ tickLog = NoLog
  /\ stepLog = NoLog
  /\ leanLog = <<>>
  /\ activations = <<>>

\* main, from the end of its 100 ms sleep to `await startServer(...)`:
\* setStartupSettlerFilter runs up to its first await, then the input
\* listener is added and the interval timer armed.
MainStart ==
  /\ Alive
  /\ mainPc = "sleep"
  /\ \E index \in RandomIndexes(Len(ServosEven)) :
       SetRamp(RampWhile("even",
                         [pc |-> "start", servosActive |-> {},
                          evenServos |-> ServosEven, oddServos |-> ServosOdd,
                          activations |-> <<>>],
                         index))
  /\ state0' = [state0 EXCEPT !.settleServoFilter = TRUE]
  /\ state' = IF sameObject THEN [state EXCEPT !.settleServoFilter = TRUE]
              ELSE state
  /\ tickInterval' = TRUE
  /\ mainPc' = "startingServer"
  /\ tickLog' = NoLog
  /\ stepLog' = NoLog
  /\ UNCHANGED <<exit, exited, sameObject, goal, current, justLeaned, server,
                 exitPc, pwmOut, calls, stopDone, leanLog>>

\* main, from the resolution of startServer on: the full exit handler is
\* installed.
MainServerStarted ==
  /\ Alive
  /\ mainPc = "startingServer"
  /\ mainPc' = "running"
  /\ server' = "open"
  /\ exit' = "full"
  /\ tickLog' = NoLog
  /\ stepLog' = NoLog
  /\ UNCHANGED <<exited, state, state0, sameObject, goal, current, justLeaned,
                 rampPc, servosActive, evenServos, oddServos, tickInterval,
                 exitPc, pwmOut, calls, stopDone, leanLog, activations>>

\* setStartupSettlerFilter resumes after a 50 ms wait inside a while loop.
RampAfterWait ==
  /\ Alive
  /\ rampPc \in {"evenWait", "oddWait"}
  /\ \E index \in RandomIndexes(RampSize) :
       SetRamp(RampWhile(IF rampPc = "evenWait" THEN "even" ELSE "odd",
                         RampLocals, index))
  /\ tickLog' = NoLog
  /\ stepLog' = NoLog
  /\ UNCHANGED <<mainPc, exit, exited, state, state0, sameObject, goal,
                 current, justLeaned, tickInterval, server, exitPc, pwmOut,
                 calls, stopDone, leanLog>>

\* RampAfterPause emptying servosActive when the ramp completes (the set
\* released along with the filter, which copies of the state still hold).
RampAfterPauseClearsActive ==
  /\ Alive
  /\ rampPc \in {"evenPause", "oddPause"}
  /\ IF rampPc = "evenPause"
       THEN /\ \E index \in RandomIndexes(RampSize) :
                 SetRamp(RampWhile("odd", RampLocals, index))
            /\ UNCHANGED <<state, state0>>
       ELSE /\ SetRamp([RampLocals EXCEPT !.pc = "done", !.servosActive = {}])
            /\ state0' = [state0 EXCEPT !.settleServoFilter = FALSE]
            /\ state' = IF sameObject
                          THEN [state EXCEPT !.settleServoFilter = FALSE]
                          ELSE state
  /\ tickLog' = NoLog
  /\ stepLog' = NoLog
  /\ UNCHANGED <<mainPc, exit, exited, sameObject, goal, current, justLeaned,
                 tickInterval, server, exitPc, pwmOut, calls, stopDone,
                 leanLog>>

\* setStartupSettlerFilter resumes after a 200 ms pause: after the even set
\* it enters the odd set's loop, after the odd set it deletes the filter
\* from the object it was given.
RampAfterPause ==
  /\ Alive
  /\ rampPc \in {"evenPause", "oddPause"}
  /\ IF rampPc = "evenPause"
       THEN /\ \E index \in RandomIndexes(RampSize) :
                 SetRamp(RampWhile("odd", RampLocals, index))
            /\ UNCHANGED <<state, state0>>
       ELSE /\ SetRamp([RampLocals EXCEPT !.pc = "done"])
            /\ state0' = [state0 EXCEPT !.settleServoFilter = FALSE]
            /\ state' = IF sameObject
                          THEN [state EXCEPT !.settleServoFilter = FALSE]
                          ELSE state
  /\ tickLog' = NoLog
  /\ stepLog' = NoLog
  /\ UNCHANGED <<mainPc, exit, exited, sameObject, goal, current, justLeaned,
                 tickInterval, server, exitPc, pwmOut, calls, stopDone,
                 leanLog>>

\* What the lean calls of one step did with the button held: the stick
\* position each was given and the goals it left behind.
LeanSets(leanCalls) ==
  IF Len(leanCalls) > 0 /\ leanCalls[1].pressed
    THEN <<[x |-> leanCalls[1].x, y |-> leanCalls[1].y,
            goal |-> leanCalls[1].after]>>
    ELSE <<>>

\* The input listener with the goals the pipeline set copied into
\* Position.current (the servos' model moved by an input step).
StepWritesCurrent(input, keep) ==
  /\ Alive
  /\ mainPc = "running"
  /\ \E r \in {step([input |-> input, state |-> state],
                    [goal |-> goal, justLeaned |-> justLeaned])} :
         /\ goal' = r.goal
         /\ current' = r.goal
         /\ justLeaned' = r.justLeaned
         /\ state' = IF r.threw THEN state ELSE r.state
         /\ sameObject' = IF r.threw THEN sameObject ELSE FALSE
         /\ stepLog' = Some([threw |-> r.threw, stages |-> r.stages,
                             leanKept |-> \A i \in 1 .. Len(r.leanCalls) :
                                            r.leanCalls[i].before
                                              = r.leanCalls[i].after,
                             leanSet |-> LeanSets(r.leanCalls)])
         /\ leanLog' = LastN(leanLog \o [i \in 1 .. Len(r.leanCalls) |->
                                           [pressed |-> r.leanCalls[i].pressed,
                                            reset |-> r.leanCalls[i].reset]],
                             keep)
  /\ tickLog' = NoLog
  /\ UNCHANGED <<mainPc, exit, exited, state0, rampPc, servosActive,
                 evenServos, oddServos, tickInterval, server, exitPc, pwmOut,
                 calls, stopDone, activations>>

\* The input listener: state = step({input, state, timeSinceLastInput}).
\* When step throws, the assignment does not happen and the exception leaves
\* the listener towards the input source, which keeps delivering samples.
\* Samples reach the listener through the server, so none arrives before
\* startServer has resolved.  keep is the number of lean calls leanLog
\* remembers.
Step(input, keep) ==
  /\ Alive
  /\ mainPc = "running"
  /\ \E r \in {step([input |-> input, state |-> state],
                    [goal |-> goal, justLeaned |-> justLeaned])} :
         /\ goal' = r.goal
         /\ justLeaned' = r.justLeaned
         /\ state' = IF r.threw THEN state ELSE r.state
         /\ sameObject' = IF r.threw THEN sameObject ELSE FALSE
         /\ stepLog' = Some([threw |-> r.threw, stages |-> r.stages,
                             leanKept |-> \A i \in 1 .. Len(r.leanCalls) :
                                            r.leanCalls[i].before
                                              = r.leanCalls[i].after,
                             leanSet |-> LeanSets(r.leanCalls)])
         /\ leanLog' = LastN(leanLog \o [i \in 1 .. Len(r.leanCalls) |->
                                           [pressed |-> r.leanCalls[i].pressed,
                                            reset |-> r.leanCalls[i].reset]],
                             keep)
  /\ tickLog' = NoLog
  /\ UNCHANGED <<mainPc, exit, exited, state0, current, rampPc, servosActive,
                 evenServos, oddServos, tickInterval, server, exitPc, pwmOut,
                 calls, stopDone, activations>>

\* onTick: state = tick({state, timeSinceLastTick}).  An exception thrown by
\* pwm.setPwm leaves the timer callback uncaught, which ends the process.
Tick(failAt) ==
  /\ Alive
  /\ tickInterval
  /\ \E r \in {tick(state, servosActive, goal, current, pwmOut, failAt)} :
         /\ current' = r.current
         /\ pwmOut' = r.pwmOut
         /\ state' = IF r.threw THEN state ELSE r.state
         /\ exited' = IF r.threw THEN "uncaughtException" ELSE exited
         /\ tickLog' = Some([filterOn |-> state.settleServoFilter,
                             active |-> servosActive, before |-> current,
                             goal |-> goal, pidCalls |-> r.pidCalls,
                             writes |-> r.writes, threw |-> r.threw])
  /\ stepLog' = NoLog
  /\ UNCHANGED <<mainPc, exit, state0, sameObject, goal, justLeaned, rampPc,
                 servosActive, evenServos, oddServos, tickInterval, server,
                 exitPc, calls, stopDone, leanLog, activations>>

\* ExitStart with the interval left armed (clearInterval given a handle that
\* is not the timer's).
ExitStartTimerLeftArmed ==
  IF exit = "initial"
    THEN /\ exited' = "bootExit"
         /\ UNCHANGED <<tickInterval, exitPc, calls>>
    ELSE /\ calls' = [calls EXCEPT !.clearInterval = @ + 1]
         /\ exitPc' = [exitPc EXCEPT !["wait1"] = @ + 1]
         /\ UNCHANGED <<exited, tickInterval>>

\* process.on('SIGINT', () => { exit(); }) with the handler installed at the
\* time: the initial one exits at once; the full one clears the interval and
\* starts its first 100 ms wait.
ExitStart ==
  IF exit = "initial"
    THEN /\ exited' = "bootExit"
         /\ UNCHANGED <<tickInterval, exitPc, calls>>
    ELSE /\ tickInterval' = FALSE
         /\ calls' = [calls EXCEPT !.clearInterval = @ + 1]
         /\ exitPc' = [exitPc EXCEPT !["wait1"] = @ + 1]
         /\ UNCHANGED exited

Sigint ==
  /\ Alive
  /\ ExitCalls < MaxSignals
  /\ ExitStart
  /\ tickLog' = NoLog
  /\ stepLog' = NoLog
  /\ UNCHANGED <<mainPc, exit, state, state0, sameObject, goal, current,
                 justLeaned, rampPc, servosActive, evenServos, oddServos,
                 server, pwmOut, stopDone, leanLog, activations>>

\* exit, after its first wait: server.close() is called.
ExitCloseServer ==
  /\ Alive
  /\ exitPc["wait1"] > 0
  /\ exitPc' = [exitPc EXCEPT !["wait1"] = @ - 1, !["closing"] = @ + 1]
  /\ calls' = [calls EXCEPT !.close = @ + 1]
  /\ tickLog' = NoLog
  /\ stepLog' = NoLog
  /\ UNCHANGED <<mainPc, exit, exited, state, state0, sameObject, goal,
                 current, justLeaned, rampPc, servosActive, evenServos,
                 oddServos, tickInterval, server, pwmOut, stopDone, leanLog,
                 activations>>

\* server.close() has resolved; exit starts its second wait.
ExitServerClosed ==
  /\ Alive
  /\ exitPc["closing"] > 0
  /\ exitPc' = [exitPc EXCEPT !["closing"] = @ - 1, !["wait2"] = @ + 1]
  /\ server' = "closed"
  /\ tickLog' = NoLog
  /\ stepLog' = NoLog
  /\ UNCHANGED <<mainPc, exit, exited, state, state0, sameObject, goal,
                 current, justLeaned, rampPc, servosActive, evenServos,
                 oddServos, tickInterval, pwmOut, calls, stopDone, leanLog,
                 activations>>

\* exit, after its second wait: if (state) await state.pwm.stop().
ExitStopPwm ==
  /\ Alive
  /\ exitPc["wait2"] > 0
  /\ exitPc' = [exitPc EXCEPT !["wait2"] = @ - 1, !["stopping"] = @ + 1]
  /\ calls' = [calls EXCEPT !.stop = @ + 1]
  /\ tickLog' = NoLog
  /\ stepLog' = NoLog
  /\ UNCHANGED <<mainPc, exit, exited, state, state0, sameObject, goal,
                 current, justLeaned, rampPc, servosActive, evenServos,
                 oddServos, tickInterval, server, pwmOut, stopDone, leanLog,
                 activations>>

\* pwm.stop() has resolved: exit logs, resolves main's promise and calls
\* process.exit(0).
ExitFinish ==
  /\ Alive
  /\ exitPc["stopping"] > 0
  /\ exitPc' = [exitPc EXCEPT !["stopping"] = @ - 1, !["done"] = @ + 1]
  /\ stopDone' = TRUE
  /\ exited' = "cleanExit"
  /\ tickLog' = NoLog
  /\ stepLog' = NoLog
  /\ UNCHANGED <<mainPc, exit, state, state0, sameObject, goal, current,
                 justLeaned, rampPc, servosActive, evenServos, oddServos,
                 tickInterval, server, pwmOut, calls, leanLog, activations>>

\* pwm.stop() has rejected: the await throws, exit's promise rejects and
\* nothing handles it.  Whether an unhandled rejection ends the process
\* depends on the runtime (fatal: it does).
ExitStopRejected(fatal) ==
  /\ Alive
  /\ exitPc["stopping"] > 0
  /\ exitPc' = [exitPc EXCEPT !["stopping"] = @ - 1, !["rejected"] = @ + 1]
  /\ exited' = IF fatal THEN "unhandledRejection" ELSE exited
  /\ tickLog' = NoLog
  /\ stepLog' = NoLog
  /\ UNCHANGED <<mainPc, exit, state, state0, sameObject, goal, current,
                 justLeaned, rampPc, servosActive, evenServos, oddServos,
                 tickInterval, server, pwmOut, calls, stopDone, leanLog,
                 activations>>

\* Input samples with the sticks centred: the samples of the orchestration
\* specification, where what matters of a step is that it replaces main's
\* state, flips the lean level and may abort.
CentredInputs == RawInputs({0}, {0}, {<<>>, <<LeanButton>>})

Next ==
  \/ MainStart
  \/ MainServerStarted
  \/ RampAfterWait
  \/ RampAfterPause
  \/ \E input \in CentredInputs : Step(input, 0)
  \/ \E failAt \in Servos \cup {NoFail} : Tick(failAt)
  \/ Sigint
  \/ ExitCloseServer
  \/ ExitServerClosed
  \/ ExitStopPwm
  \/ ExitFinish
  \/ \E fatal \in BOOLEAN : ExitStopRejected(fatal)

Spec == Init /\ [][Next]_vars

(* ------------------- the pipeline and the Settler alone --------------- *)

\* The positions setStartupSettlerFilter can be at, with its locals.
RECURSIVE RampReach(_)
RampReach(r) ==
  LET next ==
        IF r.pc = "start"
          THEN {RampWhile("even", r, i) : i \in RandomIndexes(Len(r.evenServos))}
        ELSE IF r.pc = "evenWait"
          THEN {RampWhile("even", r, i) : i \in RandomIndexes(Len(r.evenServos))}
        ELSE IF r.pc = "evenPause"
          THEN {RampWhile("odd", r, i) : i \in RandomIndexes(Len(r.oddServos))}
        ELSE IF r.pc = "oddWait"
          THEN {RampWhile("odd", r, i) : i \in RandomIndexes(Len(r.oddServos))}
        ELSE IF r.pc = "oddPause"
          THEN {[r EXCEPT !.pc = "done"]}
        ELSE {}
  IN  {r} \cup UNION {RampReach(n) : n \in next}

RampStates ==
  RampReach([pc |-> "start", servosActive |-> {}, evenServos |-> ServosEven,
             oddServos |-> ServosOdd, activations |-> <<>>])
    \ {[pc |-> "start", servosActive |-> {}, evenServos |-> ServosEven,
        oddServos |-> ServosOdd, activations |-> <<>>]}

\* main is past boot: the server is up, the full exit handler installed, the
\* timer armed, no signal received.
Booted ==
  /\ mainPc = "running"
  /\ exit = "full"
  /\ exited = "no"
  /\ tickInterval = TRUE
  /\ server = "open"
  /\ exitPc = [p \in ExitStages |-> 0]
  /\ calls = [clearInterval |-> 0, close |-> 0, stop |-> 0]
  /\ stopDone = FALSE
  /\ tickLog = NoLog
  /\ stepLog = NoLog
  /\ leanLog = <<>>

\* The ramp has completed and no input has arrived yet.
InitLean ==
  /\ Booted
  /\ \E r \in RampStates :
       /\ r.pc = "done"
       /\ rampPc = r.pc
       /\ servosActive = r.servosActive
       /\ evenServos = r.evenServos
       /\ oddServos = r.oddServos
       /\ activations = r.activations
  /\ state = [settleServoFilter |-> FALSE, leaned |-> FALSE]
  /\ state0 = [settleServoFilter |-> FALSE, leaned |-> FALSE]
  /\ sameObject = TRUE
  /\ goal = [i \in Servos |-> Neutral]
  /\ current = [i \in Servos |-> StartCurrent]
  /\ pwmOut = [i \in Servos |-> -1]
  /\ justLeaned = FALSE

\* Every sample the pad can send.
AllInputs ==
  RawInputs({0, 1}, Axis,
            {<<>>, <<LeanButton, LeanButton>>, <<OtherButton>>})

NextLean == \E input \in AllInputs : Step(input, HistoryLen)

SpecLean == InitLean /\ [][NextLean]_vars

\* Positions sampled for the servos the Settler has already moved.
SampleCurrents == {0, 3}

\* The ramp is anywhere, a lean with the button held has set the goals (so
\* main holds a copy of the state object), and the active servos have been
\* settled to some position.
InitSettle ==
  /\ Booted
  /\ \E r \in RampStates :
       /\ rampPc = r.pc
       /\ servosActive = r.servosActive
       /\ evenServos = r.evenServos
       /\ oddServos = r.oddServos
       /\ activations = r.activations
  /\ state0 = [settleServoFilter |-> rampPc # "done", leaned |-> FALSE]
  /\ state \in [settleServoFilter : IF rampPc = "done" THEN BOOLEAN ELSE {TRUE},
                leaned : {TRUE}]
  /\ sameObject = FALSE
  /\ justLeaned = TRUE
  /\ \E x \in Axis, y \in Axis :
       goal = LeanGoals([i \in Servos |-> Neutral], x, y)
  /\ current \in [Servos -> SampleCurrents \cup {StartCurrent}]
  /\ \A i \in Servos : i \notin servosActive => current[i] = StartCurrent
  /\ \A i \in Servos : i \in servosActive => current[i] \in SampleCurrents
  /\ pwmOut = [i \in Servos |-> IF i \in servosActive THEN current[i] ELSE -1]

NextSettle == \E failAt \in Servos \cup {NoFail} : Tick(failAt)

SpecSettle == InitSettle /\ [][NextSettle]_vars

(* --------------------------- the ramp's progress ---------------------- *)

\* The members of the sequence s that are in the set S, in the order of s.
Restrict(s, S) == LET In(x) == x \in S IN SelectSeq(s, In)

\* main is past boot and setStartupSettlerFilter is at its first await, on a
\* robot whose servos.even() and servos.odd() are any sub-collections of the
\* even and odd servos, the empty ones included.
InitRamp ==
  /\ Booted
  /\ \E E \in SUBSET Range(ServosEven), O \in SUBSET Range(ServosOdd) :
       \E index \in RandomIndexes(Cardinality(E)) :
         \E r \in {RampWhile("even",
                              [pc |-> "start", servosActive |-> {},
                               evenServos |-> Restrict(ServosEven, E),
                               oddServos |-> Restrict(ServosOdd, O),
                               activations |-> <<>>],
                              index)} :
           /\ rampPc = r.pc
           /\ servosActive = r.servosActive
           /\ evenServos = r.evenServos
           /\ oddServos = r.oddServos
           /\ activations = r.activations
  /\ state = [settleServoFilter |-> TRUE, leaned |-> FALSE]
  /\ state0 = [settleServoFilter |-> TRUE, leaned |-> FALSE]
  /\ sameObject = TRUE
  /\ goal = [i \in Servos |-> Neutral]
  /\ current = [i \in Servos |-> StartCurrent]
  /\ pwmOut = [i \in Servos |-> -1]
  /\ justLeaned = FALSE

NextRamp ==
  \/ RampAfterWait
  \/ RampAfterPause
  \/ \E input \in CentredInputs : Step(input, 0)
  \/ \E failAt \in Servos \cup {NoFail} : Tick(failAt)

\* The ramp's timers (the waits of lines 239 and 242) fire as long as the
\* process lives.
SpecRamp ==
  /\ InitRamp
  /\ [][NextRamp]_vars
  /\ WF_vars(RampAfterWait)
  /\ WF_vars(RampAfterPause)

(* ------------------------------ claims -------------------------------- *)

TickRan == tickLog # NoLog
StepRan == stepLog # NoLog

\* C1: once setStartupSettlerFilter has run to completion, every servo index
\* has been activated exactly once and the state object main holds has no
\* settleServoFilter.
C1_RampCoverage ==
  rampPc = "done" =>
    /\ \A i \in Servos :
         Cardinality({k \in 1 .. Len(activations) : activations[k] = i}) = 1
    /\ ~state.settleServoFilter

\* C2: clearInterval, server.close and pwm.stop are each called at most once
\* over the whole run, however many SIGINTs arrive.
C2_ShutdownOnce ==
  /\ calls.clearInterval <= 1
  /\ calls.close <= 1
  /\ calls.stop <= 1

\* C3: whenever a signal has led to process exit, pwm.stop() was called and
\* completed before the exit.
C3_StopBeforeExit ==
  exited \in {"bootExit", "cleanExit"} => (calls.stop > 0 /\ stopDone)

\* C4: a step in which a stage returned an absent result leaves main's state
\* reference, every servo's goal and justLeaned as they were before it.
C4_AbortLeavesState ==
  [][(stepLog' # NoLog /\ stepLog'[1].threw) =>
       /\ state' = state
       /\ sameObject' = sameObject
       /\ goal' = goal
       /\ justLeaned' = justLeaned]_vars

\* C5: after a Settler pass in which pwm.setPwm threw, the process is still
\* running (so that the next tick can run).
C5_WriteFailureNotFatal ==
  (TickRan /\ tickLog[1].threw) => Alive

\* C6: when pwm.stop() rejected and no other invocation of exit is still
\* under way, the process has exited.
C6_StopFailureStillExits ==
  (/\ exitPc["rejected"] > 0
   /\ \A p \in {"wait1", "closing", "wait2", "stopping"} : exitPc[p] = 0)
    => ~Alive

\* C7: shutdown order.  server.close is called only after the timer was
\* stopped, pwm.stop only after the server has closed, the exit of the full
\* handler only after pwm.stop completed; and no tick callback (hence no
\* setPwm) runs once the timer has been stopped or pwm.stop called.
C7_ShutdownOrder ==
  /\ calls.close > 0 => (calls.clearInterval > 0 /\ ~tickInterval)
  /\ calls.stop > 0 => (calls.close > 0 /\ server = "closed")
  /\ exited = "cleanExit" => (calls.stop > 0 /\ stopDone)
  /\ calls.clearInterval > 0 => ~tickInterval
  /\ TickRan => (calls.clearInterval = 0 /\ calls.stop = 0)

\* C7 witness: a shutdown ran to its exit after the Settler had written to
\* the hardware.
C7_Witness ==
  /\ exited = "cleanExit"
  /\ \E i \in Servos : pwmOut[i] # -1

\* C8: once shutdown has begun, the ramp adds no servo to the active set.
C8_RampCancelled ==
  [][ExitCalls > 0 => servosActive' = servosActive]_vars

\* C9: the neutral reset runs exactly on a lean call without the button
\* that directly follows a call with it: never on a call with the button
\* held, never on the first call, never on a second call without it, where
\* lean then leaves every goal as it found it; over [pressed, pressed,
\* released, released] it runs on the third call only.
C9_LeanEdgeTriggered ==
  /\ \A i \in 1 .. Len(leanLog) :
       /\ leanLog[i].pressed => ~leanLog[i].reset
       /\ i > 1 => (leanLog[i].reset <=>
                      (~leanLog[i].pressed /\ leanLog[i - 1].pressed))
  /\ (Len(leanLog) > 0 /\ Len(leanLog) < HistoryLen) => ~leanLog[1].reset
  /\ \A i \in 1 .. Len(leanLog) - 3 :
       <<leanLog[i].pressed, leanLog[i + 1].pressed,
         leanLog[i + 2].pressed, leanLog[i + 3].pressed>>
           = <<TRUE, TRUE, FALSE, FALSE>>
       => <<leanLog[i].reset, leanLog[i + 1].reset,
            leanLog[i + 2].reset, leanLog[i + 3].reset>>
            = <<FALSE, FALSE, TRUE, FALSE>>
  /\ (StepRan /\ Len(leanLog) > 1
        /\ ~leanLog[Len(leanLog)].pressed
        /\ ~leanLog[Len(leanLog) - 1].pressed) => stepLog[1].leanKept
  /\ (Len(leanLog) > 0 /\ (justLeaned <=> leanLog[Len(leanLog)].pressed))
       \/ (Len(leanLog) = 0 /\ ~justLeaned)

\* C9 witness: the calls [pressed, pressed, released, released] have been
\* made with the stick deflected, and the last one left goals away from
\* neutral that another stage had written after the reset.
C9_Witness ==
  /\ Len(leanLog) >= 4
  /\ LET n == Len(leanLog)
     IN  /\ leanLog[n - 3].pressed /\ leanLog[n - 2].pressed
         /\ ~leanLog[n - 1].pressed /\ ~leanLog[n].pressed
         /\ leanLog[n - 1].reset /\ ~leanLog[n].reset
  /\ StepRan /\ stepLog[1].leanKept
  /\ \E i \in LegsAll : goal[i] # Neutral

\* What one Settler pass did to servo i, read from the pass's log t.
Included(t, i) == ~t.filterOn \/ i \in t.active
Untouched(t, i) ==
  /\ current[i] = t.before[i]
  /\ \A k \in 1 .. Len(t.pidCalls) : t.pidCalls[k].index # i
  /\ \A k \in 1 .. Len(t.writes) : t.writes[k].index # i
Stepped(t, i) ==
  /\ Cardinality({k \in 1 .. Len(t.pidCalls) : t.pidCalls[k].index = i}) = 1
  /\ \A k \in 1 .. Len(t.pidCalls) :
       t.pidCalls[k].index = i => t.pidCalls[k].error = t.goal[i] - t.before[i]
  /\ current[i] = t.before[i] + pidStep(t.goal[i] - t.before[i])
Written(t, i) ==
  /\ Cardinality({k \in 1 .. Len(t.writes) : t.writes[k].index = i}) = 1
  /\ \A k \in 1 .. Len(t.writes) :
       t.writes[k].index = i => t.writes[k].value = current[i]
  /\ pwmOut[i] = current[i]
Settled(t, i) == Stepped(t, i) /\ Written(t, i)

\* C10 as stated: in every Settler pass, every servo the filter rejects is
\* untouched and every servo it lets through (all when it is absent) is
\* settled.
C10_FilterExclusiveAsStated ==
  TickRan =>
    \A i \in Servos :
      /\ ~Included(tickLog[1], i) => Untouched(tickLog[1], i)
      /\ Included(tickLog[1], i) => Settled(tickLog[1], i)

\* C10 amended: every servo the filter rejects is untouched in every pass;
\* every servo it lets through is settled in a pass that returns; in a pass
\* that pwm.setPwm ends by throwing, the servos let through before the
\* failing one are settled, the failing one has its PID stepped and its
\* current updated but no hardware write, and the servos after it are
\* untouched.
C10_FilterExclusive ==
  TickRan =>
    LET t == tickLog[1]
        failing == t.pidCalls[Len(t.pidCalls)].index
    IN  \A i \in Servos :
          /\ ~Included(t, i) => Untouched(t, i)
          /\ (Included(t, i) /\ ~t.threw) => Settled(t, i)
          /\ (Included(t, i) /\ t.threw) =>
               /\ i < failing => Settled(t, i)
               /\ i = failing =>
                    /\ Stepped(t, i)
                    /\ \A k \in 1 .. Len(t.writes) : t.writes[k].index # i
               /\ i > failing => Untouched(t, i)

\* C10 witness: a pass that returned with the filter letting through exactly
\* the even servos, one of which it moved.
C10_Witness ==
  /\ TickRan
  /\ tickLog[1].filterOn
  /\ ~tickLog[1].threw
  /\ tickLog[1].active = Range(ServosEven)
  /\ \E i \in Servos : i \notin tickLog[1].active
  /\ \E i \in tickLog[1].active : current[i] # tickLog[1].before[i]

\* C11: mirrored leg signs.  Whenever lean ran with the lean button held and
\* the right stick at (x, y), the goals it left are scale(-x, elbow) for the
\* elbow of every left and every right leg, scale(y, shoulder) for the
\* shoulder of every left leg and scale(-y, shoulder) for the shoulder of
\* every right leg.
C11_MirroredLegSigns ==
  StepRan =>
    \A k \in 1 .. Len(stepLog[1].leanSet) :
      LET c == stepLog[1].leanSet[k]
      IN  /\ \A l \in LegsLeft \cup LegsRight :
               c.goal[l.elbow] = scaleAxisToServo(-c.x, l.elbow)
          /\ \A l \in LegsLeft :
               c.goal[l.shoulder] = scaleAxisToServo(c.y, l.shoulder)
          /\ \A l \in LegsRight :
               c.goal[l.shoulder] = scaleAxisToServo(-c.y, l.shoulder)

\* lean ran with the button held and the stick off centre on both axes, on
\* a robot that has a left and a right leg.
C11_Witness ==
  /\ StepRan
  /\ LegsLeft # {} /\ LegsRight # {}
  /\ \E k \in 1 .. Len(stepLog[1].leanSet) :
       /\ stepLog[1].leanSet[k].x = 1
       /\ stepLog[1].leanSet[k].y = -1

Abs(n) == IF n < 0 THEN -n ELSE n

\* C12: monotonic convergence.  With the goals fixed (no input step between
\* ticks) and a purely proportional PID controller with a gain in (0, 1],
\* no Settler pass leaves any servo further from its goal than it found it:
\* |goal - current| after the pass is at most |goal - current| before it.
C12_MonotonicConvergence ==
  TickRan =>
    \A i \in Servos :
      Abs(goal[i] - current[i]) <= Abs(tickLog[1].goal[i] - tickLog[1].before[i])

\* A pass moved a servo it may touch closer to its goal without reaching it.
C12_Witness ==
  /\ TickRan
  /\ \E i \in Servos :
       /\ Included(tickLog[1], i)
       /\ current[i] # goal[i]
       /\ Abs(goal[i] - current[i]) < Abs(goal[i] - tickLog[1].before[i])

\* C13: during the startup ramp, whatever ticks and input steps came before
\* (steps that replaced main's state object included), a Settler pass steps,
\* moves and writes no servo whose index is outside the active set as it
\* was when the pass ran.
C13_RampFilterHolds ==
  (TickRan /\ rampPc \notin {"notStarted", "done"}) =>
    \A i \in Servos \ tickLog[1].active : Untouched(tickLog[1], i)

\* A pass during the ramp, after a step replaced main's state object, that
\* moved an active servo while another servo was not active yet.
C13_Witness ==
  /\ TickRan
  /\ rampPc \notin {"notStarted", "done"}
  /\ ~sameObject
  /\ \E i \in Servos : i \notin tickLog[1].active
  /\ \E i \in tickLog[1].active : current[i] # tickLog[1].before[i]

\* C14: random selection covers the whole remaining set.  Every activation
\* step so far moved exactly one index from the remaining sets to the active
\* set, and every index of the set the next step picks from is a possible
\* outcome of that pick.
C14_PickCoversRemaining ==
  /\ Cardinality(servosActive) = Len(activations)
  /\ rampPc # "notStarted" =>
       /\ Range(evenServos) \cup Range(oddServos) = Servos \ servosActive
       /\ Len(evenServos) + Len(oddServos) = NumServos - Len(activations)
  /\ {PickServo(NextRemaining, index) :
        index \in {j \in RandomIndexes(Len(NextRemaining)) :
                     Len(NextRemaining) > 0}}
       = Range(NextRemaining)

\* C15: even before odd.  In every reachable state no odd-indexed servo is
\* in the active set while an even-indexed servo is not; and no step removes
\* an index from the active set, every activation step adding exactly one
\* index and every other step none.
C15_EvenBeforeOdd ==
  /\ []((\E i \in servosActive : i % 2 = 1)
          => \A i \in Servos : i % 2 = 0 => i \in servosActive)
  /\ [][/\ servosActive \subseteq servosActive'
         /\ Cardinality(servosActive')
              = Cardinality(servosActive)
                  + (IF activations' # activations THEN 1 ELSE 0)]_vars

\* The ramp has activated every even servo and its first odd one.
C15_Witness ==
  /\ rampPc = "oddWait"
  /\ Len(activations) = Len(ServosEven) + 1
  /\ \E i \in servosActive : i % 2 = 1
  /\ \E i \in Servos : i \notin servosActive

\* The servos a pass lets through its filter, in the order of servos.all().
Passing(t) == LET Passes(i) == Included(t, i) IN SelectSeq(ServosAll, Passes)

\* The first n servos let through have had their PID controller stepped, in
\* that order and with error = goal - current as the pass found them, and
\* their current raised by the step; the first w of them have had that new
\* current written to their index, in that order; the others let through are
\* as the pass found them; the goals are as the pass found them.
SettledUpTo(t, n, w) ==
  LET p == Passing(t)
  IN  /\ w <= n /\ n <= Len(p)
      /\ t.pidCalls = [k \in 1 .. n |->
                        [index |-> p[k],
                         error |-> t.goal[p[k]] - t.before[p[k]]]]
      /\ \A k \in 1 .. n :
           current[p[k]] = t.before[p[k]]
                             + pidStep(t.goal[p[k]] - t.before[p[k]])
      /\ \A k \in n + 1 .. Len(p) : current[p[k]] = t.before[p[k]]
      /\ t.writes = [k \in 1 .. w |-> [index |-> p[k], value |-> current[p[k]]]]
      /\ \A k \in 1 .. w : pwmOut[p[k]] = current[p[k]]
      /\ goal = t.goal

\* C16 as stated: in every Settler pass every servo that passes the filter
\* is stepped once with error = goal - current, in the order of
\* servos.all(), its current becomes the old current plus the step and is
\* written to the hardware at its index; the goals are not changed.
C16_SettlerStepAsStated ==
  TickRan =>
    SettledUpTo(tickLog[1], Len(Passing(tickLog[1])), Len(Passing(tickLog[1])))

\* C16 amended: the above holds of every pass that returns; a pass that
\* pwm.setPwm ends by throwing has done so for the servos before the failing
\* one, has stepped the failing one and updated its current without a
\* hardware write, and has left the servos after it alone.
C16_SettlerStep ==
  TickRan =>
    LET t == tickLog[1]
    IN  IF t.threw
          THEN /\ Len(t.pidCalls) >= 1
               /\ SettledUpTo(t, Len(t.pidCalls), Len(t.pidCalls) - 1)
          ELSE SettledUpTo(t, Len(Passing(t)), Len(Passing(t)))

\* A pass that returned after moving two servos, each by its own PID step.
C16_Witness ==
  /\ TickRan
  /\ ~tickLog[1].threw
  /\ \E i, j \in Servos :
       /\ i < j
       /\ Included(tickLog[1], i) /\ Included(tickLog[1], j)
       /\ current[i] # tickLog[1].before[i]
       /\ current[j] # tickLog[1].before[j]
       /\ current[i] - tickLog[1].before[i] # current[j] - tickLog[1].before[j]

\* C17: Position.current is written only by the Settler.  No input step
\* (lean with the button held, on the release edge, or doing nothing)
\* changes any servo's current or what the hardware was last given, and
\* every step of the program that changes a current is a Settler pass.
C17_OnlySettlerWritesCurrent ==
  [][/\ stepLog' # NoLog => (current' = current /\ pwmOut' = pwmOut)
     /\ current' # current => tickLog' # NoLog]_vars

\* An input step with the lean button held ran after Settler passes had
\* moved some servos and not others.
C17_Witness ==
  /\ StepRan
  /\ justLeaned
  /\ \E i \in Servos : current[i] # StartCurrent
  /\ \E i \in Servos : current[i] = StartCurrent

\* C18: the model matches the hardware.  Between callbacks, and also after
\* a Settler pass in which a hardware write failed, every servo that has
\* been written to the hardware at least once has a current equal to the
\* value last written for its index.
C18_ModelMatchesHardware ==
  \A i \in Servos : pwmOut[i] # -1 => current[i] = pwmOut[i]

\* C19 as stated: once the ramp has completed, every Settler pass settles
\* every servo, whatever steps and ticks ran during the ramp and whether or
\* not main's state object still has a settleServoFilter.
C19_AllSettledAfterRampAsStated ==
  (TickRan /\ rampPc = "done") => \A i \in Servos : Settled(tickLog[1], i)

\* C19 amended: once the ramp has completed, no Settler pass skips a servo
\* at its filter, whether or not main's state object still has one: a pass
\* that returns settles every servo, and a pass that pwm.setPwm ends by
\* throwing has settled every servo before the failing one.
C19_AllSettledAfterRamp ==
  (TickRan /\ rampPc = "done") =>
    LET t == tickLog[1]
    IN  /\ Passing(t) = ServosAll
        /\ ~t.threw => \A i \in Servos : Settled(t, i)
        /\ t.threw =>
             \A i \in Servos :
               i < t.pidCalls[Len(t.pidCalls)].index => Settled(t, i)

\* After the ramp a pass ran on a state object that still had the filter,
\* returned, and moved a servo.
C19_Witness ==
  /\ TickRan
  /\ rampPc = "done"
  /\ tickLog[1].filterOn
  /\ ~tickLog[1].threw
  /\ \E i \in Servos : current[i] # tickLog[1].before[i]

\* C20: the ramp terminates.  With its timers firing, and for every
\* sequence of random picks and every pair of even and odd sets (empty ones
\* included), setStartupSettlerFilter reaches its end unless the process
\* ends first; every loop iteration picks a member of the remaining set that
\* is not active yet and removes exactly that member; and while the ramp
\* waits, input steps and ticks can run.
C20_RampTerminates ==
  /\ <>(rampPc = "done" \/ ~Alive)
  /\ [][activations' # activations =>
          \E servoIndex \in Range(NextRemaining) \ servosActive :
            /\ servosActive' = servosActive \cup {servoIndex}
            /\ activations' = Append(activations, servoIndex)
            /\ Range(evenServos') \cup Range(oddServos')
                 = (Range(evenServos) \cup Range(oddServos)) \ {servoIndex}
            /\ Len(evenServos') + Len(oddServos')
                 = Len(evenServos) + Len(oddServos) - 1]_vars
  /\ []((Alive /\ rampPc \in {"evenWait", "evenPause", "oddWait", "oddPause"})
          => /\ ENABLED (\E input \in CentredInputs : Step(input, 0))
             /\ ENABLED (\E failAt \in Servos \cup {NoFail} : Tick(failAt)))

\* The ramp has ended on a robot with every servo, after a step replaced
\* main's state object and a tick ran on the way.
C20_Witness ==
  /\ rampPc = "done"
  /\ Alive
  /\ Len(activations) = NumServos
  /\ ~sameObject
  /\ \E i \in Servos : current[i] # StartCurrent

====
